---- MODULE Spec2Model ----
(***************************************************************************)
(* Resource override chain of provider-jet-aws4 (package config).          *)
(*                                                                         *)
(* GetProvider hands DefaultResource seven ResourceOptions, applied in a   *)
(* fixed order to every resource descriptor:                               *)
(*   GroupKindOverrides, KindOverrides, RegionAddition, TagsAllRemoval,    *)
(*   IdentifierAssignedByAWS, NamePrefixRemoval, KnownReferencers.         *)
(*                                                                         *)
(* Go strings on which the code works character by character (resource     *)
(* names, field names, kinds, reference field names) are sequences of      *)
(* one-character strings; strings that are only stored and compared        *)
(* (groups, reference types, descriptions, schema types) are TLA+ strings. *)
(***************************************************************************)
EXTENDS Integers, Sequences, FiniteSets, TLC

VARIABLES r, r0, orig, last, again, panicked, call, ret

vars == <<r, r0, orig, last, again, panicked, call, ret>>

(***************************************************************************)
(* Bounds of the model.                                                    *)
(***************************************************************************)
\* largest number of fields in the Terraform schema of an input descriptor
MaxFields == 1

\* largest word count handed to ReplaceGroupWords in the function-level check
MaxCount == 3

(***************************************************************************)
(* String literals.                                                        *)
(***************************************************************************)
str_aws_route53_resolver_rule ==
    <<"a", "w", "s", "_", "r", "o", "u", "t", "e", "5", "3", "_", "r", "e", "s", "o", "l", "v", "e", "r", "_", "r", "u", "l", "e">>

str_aws_route53_resolver_rule_association ==
    <<"a", "w", "s", "_", "r", "o", "u", "t", "e", "5", "3", "_", "r", "e", "s", "o", "l", "v", "e", "r", "_", "r", "u", "l", "e", "_", "a", "s", "s", "o", "c", "i", "a", "t", "i", "o", "n">>

str_aws_route_table ==
    <<"a", "w", "s", "_", "r", "o", "u", "t", "e", "_", "t", "a", "b", "l", "e">>

str_aws_autoscaling_group ==
    <<"a", "w", "s", "_", "a", "u", "t", "o", "s", "c", "a", "l", "i", "n", "g", "_", "g", "r", "o", "u", "p">>

str_aws_cloudformation_type ==
    <<"a", "w", "s", "_", "c", "l", "o", "u", "d", "f", "o", "r", "m", "a", "t", "i", "o", "n", "_", "t", "y", "p", "e">>

str_aws_config_configuration_recorder_status ==
    <<"a", "w", "s", "_", "c", "o", "n", "f", "i", "g", "_", "c", "o", "n", "f", "i", "g", "u", "r", "a", "t", "i", "o", "n", "_", "r", "e", "c", "o", "r", "d", "e", "r", "_", "s", "t", "a", "t", "u", "s">>

str_aws_cloudtrail ==
    <<"a", "w", "s", "_", "c", "l", "o", "u", "d", "t", "r", "a", "i", "l">>

str_aws_vpc ==
    <<"a", "w", "s", "_", "v", "p", "c">>

str_AwsPrefix ==
    <<"a", "w", "s", "_">>

str_AutoscalingGroup ==
    <<"A", "u", "t", "o", "s", "c", "a", "l", "i", "n", "g", "G", "r", "o", "u", "p">>

str_CloudFormationType ==
    <<"C", "l", "o", "u", "d", "F", "o", "r", "m", "a", "t", "i", "o", "n", "T", "y", "p", "e">>

str_AWSConfigurationRecorderStatus ==
    <<"A", "W", "S", "C", "o", "n", "f", "i", "g", "u", "r", "a", "t", "i", "o", "n", "R", "e", "c", "o", "r", "d", "e", "r", "S", "t", "a", "t", "u", "s">>

str_Trail ==
    <<"T", "r", "a", "i", "l">>

str_region ==
    <<"r", "e", "g", "i", "o", "n">>

str_tags_all ==
    <<"t", "a", "g", "s", "_", "a", "l", "l">>

str_name_prefix ==
    <<"n", "a", "m", "e", "_", "p", "r", "e", "f", "i", "x">>

str_role_arn ==
    <<"r", "o", "l", "e", "_", "a", "r", "n">>

str_security_group_ids ==
    <<"s", "e", "c", "u", "r", "i", "t", "y", "_", "g", "r", "o", "u", "p", "_", "i", "d", "s">>

str_vpc_id ==
    <<"v", "p", "c", "_", "i", "d">>

str_subnet_ids ==
    <<"s", "u", "b", "n", "e", "t", "_", "i", "d", "s">>

str_subnet_id ==
    <<"s", "u", "b", "n", "e", "t", "_", "i", "d">>

str_security_group_id ==
    <<"s", "e", "c", "u", "r", "i", "t", "y", "_", "g", "r", "o", "u", "p", "_", "i", "d">>

str_kms_key_id ==
    <<"k", "m", "s", "_", "k", "e", "y", "_", "i", "d">>

str_kms_key_arn ==
    <<"k", "m", "s", "_", "k", "e", "y", "_", "a", "r", "n">>

str_kms_key ==
    <<"k", "m", "s", "_", "k", "e", "y">>

str_VpcIdRef ==
    <<"V", "p", "c", "I", "d", "R", "e", "f">>

str_VpcIdSelector ==
    <<"V", "p", "c", "I", "d", "S", "e", "l", "e", "c", "t", "o", "r">>

str_SubnetIdRefs ==
    <<"S", "u", "b", "n", "e", "t", "I", "d", "R", "e", "f", "s">>

str_SubnetIdSelector ==
    <<"S", "u", "b", "n", "e", "t", "I", "d", "S", "e", "l", "e", "c", "t", "o", "r">>

str_PluralS ==
    <<"s">>

str_Refs ==
    <<"R", "e", "f", "s">>

str_Selector ==
    <<"S", "e", "l", "e", "c", "t", "o", "r">>

str_name ==
    <<"n", "a", "m", "e">>

str_db_security_group_ids ==
    <<"d", "b", "_", "s", "e", "c", "u", "r", "i", "t", "y", "_", "g", "r", "o", "u", "p", "_", "i", "d", "s">>

str_SampleKind ==
    <<"S", "a", "m", "p", "l", "e">>

str_IdsSuffix ==
    <<"_", "i", "d", "s">>

str_Rule ==
    <<"R", "u", "l", "e">>

str_RuleAssociation ==
    <<"R", "u", "l", "e", "A", "s", "s", "o", "c", "i", "a", "t", "i", "o", "n">>

str_RouteTable ==
    <<"R", "o", "u", "t", "e", "T", "a", "b", "l", "e">>

str_DbSecurityGroupRefs ==
    <<"D", "b", "S", "e", "c", "u", "r", "i", "t", "y", "G", "r", "o", "u", "p", "R", "e", "f", "s">>

str_DbSecurityGroupSelector ==
    <<"D", "b", "S", "e", "c", "u", "r", "i", "t", "y", "G", "r", "o", "u", "p", "S", "e", "l", "e", "c", "t", "o", "r">>

str_DbSecurityGroupIdRefs ==
    <<"D", "b", "S", "e", "c", "u", "r", "i", "t", "y", "G", "r", "o", "u", "p", "I", "d", "R", "e", "f", "s">>

str_DbSecurityGroupIdSelector ==
    <<"D", "b", "S", "e", "c", "u", "r", "i", "t", "y", "G", "r", "o", "u", "p", "I", "d", "S", "e", "l", "e", "c", "t", "o", "r">>

str_SecurityGroupIdRefs ==
    <<"S", "e", "c", "u", "r", "i", "t", "y", "G", "r", "o", "u", "p", "I", "d", "R", "e", "f", "s">>

str_SecurityGroupIdSelector ==
    <<"S", "e", "c", "u", "r", "i", "t", "y", "G", "r", "o", "u", "p", "I", "d", "S", "e", "l", "e", "c", "t", "o", "r">>

(***************************************************************************)
(* Go standard library string functions used by the code.                  *)
(***************************************************************************)
\* strings.HasPrefix(s, prefix)
HasPrefix(s, prefix) ==
    /\ Len(prefix) <= Len(s)
    /\ SubSeq(s, 1, Len(prefix)) = prefix

\* strings.TrimPrefix(s, prefix): s without the prefix, or s itself
TrimPrefix(s, prefix) ==
    IF HasPrefix(s, prefix) THEN SubSeq(s, Len(prefix) + 1, Len(s)) ELSE s

\* strings.HasSuffix(s, suffix)
HasSuffix(s, suffix) ==
    /\ Len(suffix) <= Len(s)
    /\ SubSeq(s, Len(s) - Len(suffix) + 1, Len(s)) = suffix

\* TrimSuffix that strips nothing
TrimSuffixKeepsSuffix(s, suffix) == s

\* strings.TrimSuffix(s, suffix): s without the suffix, or s itself
TrimSuffix(s, suffix) ==
    IF HasSuffix(s, suffix) THEN SubSeq(s, 1, Len(s) - Len(suffix)) ELSE s

\* strings.Split(s, sep) for a one-character sep: every piece between two
\* separators, empty pieces included; a string without sep is the one piece
RECURSIVE Split(_, _)
Split(s, sep) ==
    IF \A i \in 1..Len(s) : s[i] # sep
    THEN <<s>>
    ELSE LET i == CHOOSE j \in 1..Len(s) :
                      /\ s[j] = sep
                      /\ \A h \in 1..(j - 1) : s[h] # sep
         IN  <<SubSeq(s, 1, i - 1)>> \o Split(SubSeq(s, i + 1, Len(s)), sep)

\* strings.Join(elems, sep) for a one-character sep
RECURSIVE Join(_, _)
Join(elems, sep) ==
    IF Len(elems) = 0 THEN <<>>
    ELSE IF Len(elems) = 1 THEN elems[1]
    ELSE elems[1] \o <<sep>> \o Join(Tail(elems), sep)

(***************************************************************************)
(* name.NewFromSnake(s).Camel of the terrajet library: the naming          *)
(* transform, each non-empty underscore-separated word capitalized and the *)
(* words concatenated.                                                     *)
(***************************************************************************)
Lower == <<"a", "b", "c", "d", "e", "f", "g", "h", "i", "j", "k", "l", "m",
           "n", "o", "p", "q", "r", "s", "t", "u", "v", "w", "x", "y", "z">>

Upper == <<"A", "B", "C", "D", "E", "F", "G", "H", "I", "J", "K", "L", "M",
           "N", "O", "P", "Q", "R", "S", "T", "U", "V", "W", "X", "Y", "Z">>

ToUpperChar(c) ==
    IF \E i \in 1..Len(Lower) : Lower[i] = c
    THEN Upper[CHOOSE i \in 1..Len(Lower) : Lower[i] = c]
    ELSE c

Title(w) ==
    IF Len(w) = 0 THEN w ELSE <<ToUpperChar(w[1])>> \o Tail(w)

RECURSIVE ConcatTitles(_)
ConcatTitles(ws) ==
    IF Len(ws) = 0 THEN <<>> ELSE Title(Head(ws)) \o ConcatTitles(Tail(ws))

NewFromSnakeCamel(s) == ConcatTitles(Split(s, "_"))

(***************************************************************************)
(* Finite maps (Go map[string]T) as functions.                             *)
(***************************************************************************)
\* m[k] = v
Put(m, k, v) ==
    [x \in (DOMAIN m) \cup {k} |-> IF x = k THEN v ELSE m[x]]

EmptyMap == [x \in {} |-> x]

(***************************************************************************)
(* Override tables.                                                        *)
(***************************************************************************)
\* GroupMap: each entry is the closure ReplaceGroupWords(group, count),
\* kept as the two values the closure captures
GroupMap ==
    (str_aws_route53_resolver_rule :> [group |-> "route53resolver", count |-> 2]) @@
    (str_aws_route53_resolver_rule_association :> [group |-> "route53resolver", count |-> 2]) @@
    (str_aws_route_table :> [group |-> "ec2", count |-> 0])

KindMap ==
    (str_aws_autoscaling_group :> str_AutoscalingGroup) @@
    (str_aws_cloudformation_type :> str_CloudFormationType) @@
    (str_aws_config_configuration_recorder_status :> str_AWSConfigurationRecorderStatus) @@
    (str_aws_cloudtrail :> str_Trail)

\* words[count:] panics when count exceeds the length of the slice
SliceFromPanics(words, count) == count > Len(words)

\* words[count+1:], one word too many dropped
SliceFromOffByOne(words, count) == SubSeq(words, count + 2, Len(words))

SliceFrom(words, count) == SubSeq(words, count + 1, Len(words))

\* the function returned by ReplaceGroupWords(group, count), applied to
\* resource: the pair it returns, or the panic of the slice expression
ReplaceGroupWords(group, count, resource) ==
    LET words == Split(TrimPrefix(resource, str_AwsPrefix), "_")
    IN  IF SliceFromPanics(words, count)
        THEN [panicked |-> TRUE, group |-> "", kind |-> <<>>]
        ELSE [panicked |-> FALSE,
              group    |-> group,
              kind     |-> NewFromSnakeCamel(Join(SliceFrom(words, count), "_"))]

(***************************************************************************)
(* The seven ResourceOptions, each a function of the descriptor d.         *)
(***************************************************************************)
GroupKindOverridesPanics(d) ==
    /\ d.Name \in DOMAIN GroupMap
    /\ ReplaceGroupWords(GroupMap[d.Name].group, GroupMap[d.Name].count, d.Name).panicked

GroupKindOverrides(d) ==
    IF d.Name \in DOMAIN GroupMap /\ ~GroupKindOverridesPanics(d)
    THEN LET f == ReplaceGroupWords(GroupMap[d.Name].group, GroupMap[d.Name].count, d.Name)
         IN  [d EXCEPT !.ShortGroup = f.group, !.Kind = f.kind]
    ELSE d

\* KindOverrides without the ok check: r.Kind = KindMap[r.Name]
KindOverridesUnchecked(d) ==
    [d EXCEPT !.Kind = IF d.Name \in DOMAIN KindMap THEN KindMap[d.Name] ELSE <<>>]

KindOverrides(d) ==
    IF d.Name \in DOMAIN KindMap
    THEN [d EXCEPT !.Kind = KindMap[d.Name]]
    ELSE d

RegionDescription == "Region is the region you'd like your resource to be created in."

\* the schema.Schema literal RegionAddition stores; the fields the literal
\* does not name have Go's zero value
RegionSchema ==
    [Type        |-> "TypeString",
     Required    |-> TRUE,
     Optional    |-> FALSE,
     Computed    |-> FALSE,
     Sensitive   |-> FALSE,
     Description |-> RegionDescription]

\* RegionAddition without the iam exception
RegionAdditionEverywhere(d) ==
    [d EXCEPT !.Schema = Put(d.Schema, str_region, RegionSchema)]

\* RegionAddition that keeps an existing region field and only sets its
\* Required and Description
RegionAdditionMerges(d) ==
    IF d.ShortGroup = "iam"
    THEN d
    ELSE IF str_region \in DOMAIN d.Schema
    THEN [d EXCEPT !.Schema[str_region].Required = TRUE,
                   !.Schema[str_region].Description = RegionDescription]
    ELSE [d EXCEPT !.Schema = Put(d.Schema, str_region, RegionSchema)]

RegionAddition(d) ==
    IF d.ShortGroup = "iam"
    THEN d
    ELSE [d EXCEPT !.Schema = Put(d.Schema, str_region, RegionSchema)]

\* TagsAllRemoval with the two assignments swapped
TagsAllRemovalSwapped(d) ==
    IF str_tags_all \in DOMAIN d.Schema
    THEN [d EXCEPT !.Schema[str_tags_all].Computed = FALSE,
                   !.Schema[str_tags_all].Optional = TRUE]
    ELSE d

TagsAllRemoval(d) ==
    IF str_tags_all \in DOMAIN d.Schema
    THEN [d EXCEPT !.Schema[str_tags_all].Computed = TRUE,
                   !.Schema[str_tags_all].Optional = FALSE]
    ELSE d

\* tjconfig.IdentifierFromProvider: an ExternalName configuration that
\* omits no field
IdentifierFromProvider ==
    [Strategy |-> "IdentifierFromProvider", OmittedFields |-> <<>>]

IdentifierAssignedByAWS(d) ==
    [d EXCEPT !.ExternalName = IdentifierFromProvider]

\* NamePrefixRemoval without the search for an entry already present
NamePrefixRemovalAppends(d) ==
    [d EXCEPT !.ExternalName.OmittedFields = Append(@, str_name_prefix)]

NamePrefixRemoval(d) ==
    IF \E i \in 1..Len(d.ExternalName.OmittedFields) :
           d.ExternalName.OmittedFields[i] = str_name_prefix
    THEN d
    ELSE [d EXCEPT !.ExternalName.OmittedFields = Append(@, str_name_prefix)]

\* tjconfig.Reference; the fields a literal does not name are empty
Reference(type, refFieldName, selectorFieldName, extractor) ==
    [Type              |-> type,
     RefFieldName      |-> refFieldName,
     SelectorFieldName |-> selectorFieldName,
     Extractor         |-> extractor]

\* the first switch of the loop body: rules on the suffix of the field name
SuffixSwitch(refs, k) ==
    IF HasSuffix(k, str_role_arn)
    THEN Put(refs, k,
             Reference("github.com/crossplane-contrib/provider-jet-aws/apis/iam/v1alpha2.Role",
                       <<>>, <<>>, "common.PathARNExtractor"))
    ELSE IF HasSuffix(k, str_security_group_ids)
    THEN Put(refs, k,
             Reference("github.com/crossplane-contrib/provider-jet-aws/apis/ec2/v1alpha2.SecurityGroup",
                       TrimSuffix(NewFromSnakeCamel(k), str_PluralS) \o str_Refs,
                       TrimSuffix(NewFromSnakeCamel(k), str_PluralS) \o str_Selector,
                       ""))
    ELSE refs

\* the second switch of the loop body: rules on the whole field name
ExactSwitch(refs, k, shortGroup) ==
    CASE k = str_vpc_id ->
           IF shortGroup = "ec2"
           THEN Put(refs, str_vpc_id,
                    Reference("VPC", str_VpcIdRef, str_VpcIdSelector, ""))
           ELSE Put(refs, str_vpc_id,
                    Reference("github.com/crossplane-contrib/provider-jet-aws/apis/ec2/v1alpha2.VPC",
                              str_VpcIdRef, str_VpcIdSelector, ""))
      [] k = str_subnet_ids ->
           IF shortGroup = "ec2"
           THEN Put(refs, str_subnet_ids,
                    Reference("Subnet", str_SubnetIdRefs, str_SubnetIdSelector, ""))
           ELSE Put(refs, str_subnet_ids,
                    Reference("github.com/crossplane-contrib/provider-jet-aws/apis/ec2/v1alpha2.Subnet",
                              str_SubnetIdRefs, str_SubnetIdSelector, ""))
      [] k = str_subnet_id ->
           Put(refs, str_subnet_id,
               Reference("github.com/crossplane-contrib/provider-jet-aws/apis/ec2/v1alpha2.Subnet",
                         <<>>, <<>>, ""))
      [] k = str_security_group_id ->
           Put(refs, str_security_group_id,
               Reference("github.com/crossplane-contrib/provider-jet-aws/apis/ec2/v1alpha2.SecurityGroup",
                         <<>>, <<>>, ""))
      [] k = str_kms_key_id ->
           Put(refs, str_kms_key_id,
               Reference("github.com/crossplane-contrib/provider-jet-aws/apis/kms/v1alpha2.Key",
                         <<>>, <<>>, ""))
      [] k = str_kms_key_arn ->
           Put(refs, str_kms_key_arn,
               Reference("github.com/crossplane-contrib/provider-jet-aws/apis/kms/v1alpha2.Key",
                         <<>>, <<>>, ""))
      [] k = str_kms_key ->
           Put(refs, str_kms_key,
               Reference("github.com/crossplane-contrib/provider-jet-aws/apis/kms/v1alpha2.Key",
                         <<>>, <<>>, ""))
      [] OTHER -> refs

\* the test of the loop without its sensitive clause
SkippedFieldStatusOnly(s) == s.Computed /\ ~s.Optional

\* fields the loop passes over: status fields and sensitive fields
SkippedField(s) == (s.Computed /\ ~s.Optional) \/ s.Sensitive

\* one iteration of the loop over the schema, for the field named k
KnownReferencersField(d, refs, k) ==
    IF SkippedField(d.Schema[k])
    THEN refs
    ELSE ExactSwitch(SuffixSwitch(refs, k), k, d.ShortGroup)

\* the loop, visiting the fields in the given order
RECURSIVE KnownReferencersLoop(_, _, _)
KnownReferencersLoop(d, refs, order) ==
    IF Len(order) = 0
    THEN refs
    ELSE KnownReferencersLoop(d, KnownReferencersField(d, refs, Head(order)), Tail(order))

\* Go visits the keys of a map in an unspecified order
Orders(S) ==
    {o \in [1..Cardinality(S) -> S] : \A x \in S : \E i \in 1..Cardinality(S) : o[i] = x}

KnownReferencers(d, order) ==
    [d EXCEPT !.References = KnownReferencersLoop(d, d.References, order)]

(***************************************************************************)
(* Descriptors handed to the chain by DefaultResource.                     *)
(***************************************************************************)
ResourceNames ==
    (DOMAIN GroupMap) \cup (DOMAIN KindMap) \cup {str_aws_vpc}

Groups == {"iam", "ec2", "rds"}

FieldNames ==
    {str_region, str_tags_all, str_name, str_role_arn, str_security_group_ids,
     str_db_security_group_ids, str_vpc_id, str_subnet_ids, str_subnet_id,
     str_security_group_id, str_kms_key_id, str_kms_key_arn, str_kms_key}

\* the type the AWS provider gives a field of that name: lists of
\* identifiers are sets, tags are maps, the rest are strings
FieldType(k) ==
    IF k = str_tags_all THEN "TypeMap"
    ELSE IF HasSuffix(k, str_IdsSuffix) THEN "TypeSet"
    ELSE "TypeString"

\* field definitions Terraform accepts: a field is required, or it is
\* optional and/or computed
FieldVariants(k) ==
    {s \in [Type        : {FieldType(k)},
            Required    : BOOLEAN,
            Optional    : BOOLEAN,
            Computed    : BOOLEAN,
            Sensitive   : BOOLEAN,
            Description : {"doc"}] :
        IF s.Required THEN ~s.Optional /\ ~s.Computed ELSE s.Optional \/ s.Computed}

Schemas ==
    UNION {{s \in [K -> UNION {FieldVariants(k) : k \in K}] :
                \A k \in K : s[k] \in FieldVariants(k)} :
              K \in {S \in SUBSET FieldNames : Cardinality(S) <= MaxFields}}

\* DefaultResource starts every descriptor with the NameAsIdentifier
\* configuration, which omits name and name_prefix
NameAsIdentifier ==
    [Strategy |-> "NameAsIdentifier", OmittedFields |-> <<str_name, str_name_prefix>>]

Descriptors ==
    [Name         : ResourceNames,
     ShortGroup   : Groups,
     Kind         : {str_SampleKind},
     ExternalName : {NameAsIdentifier},
     Schema       : Schemas,
     References   : {EmptyMap}]

NoCall == [group |-> "", count |-> 0, resource |-> <<>>]

NoRet == [op |-> "none", found |-> FALSE, group |-> "", kind |-> <<>>]

Init ==
    /\ r \in Descriptors
    /\ r0 = r
    /\ orig = r
    /\ last = "DefaultResource"
    /\ again = FALSE
    /\ panicked = FALSE
    /\ call = NoCall
    /\ ret = NoRet

(***************************************************************************)
(* The chain of GetProvider: option m runs after option prev; a second     *)
(* application of the option that ran last is the re-application the       *)
(* idempotence requirement speaks of.                                      *)
(***************************************************************************)
Apply(m, prev, d) ==
    /\ ~panicked
    /\ last \in {prev, m}
    /\ r0' = r
    /\ r' = d
    /\ last' = m
    /\ again' = (last = m)
    /\ UNCHANGED <<orig, call, ret>>

ApplyGroupKindOverrides ==
    /\ Apply("GroupKindOverrides", "DefaultResource", GroupKindOverrides(r))
    /\ panicked' = GroupKindOverridesPanics(r)

ApplyKindOverrides ==
    /\ Apply("KindOverrides", "GroupKindOverrides", KindOverrides(r))
    /\ UNCHANGED panicked

ApplyRegionAddition ==
    /\ Apply("RegionAddition", "KindOverrides", RegionAddition(r))
    /\ UNCHANGED panicked

ApplyTagsAllRemoval ==
    /\ Apply("TagsAllRemoval", "RegionAddition", TagsAllRemoval(r))
    /\ UNCHANGED panicked

ApplyIdentifierAssignedByAWS ==
    /\ Apply("IdentifierAssignedByAWS", "TagsAllRemoval", IdentifierAssignedByAWS(r))
    /\ UNCHANGED panicked

ApplyNamePrefixRemoval ==
    /\ Apply("NamePrefixRemoval", "IdentifierAssignedByAWS", NamePrefixRemoval(r))
    /\ UNCHANGED panicked

ApplyKnownReferencers ==
    /\ \E order \in Orders(DOMAIN r.Schema) :
           Apply("KnownReferencers", "NamePrefixRemoval", KnownReferencers(r, order))
    /\ UNCHANGED panicked

Next ==
    \/ ApplyGroupKindOverrides
    \/ ApplyKindOverrides
    \/ ApplyRegionAddition
    \/ ApplyTagsAllRemoval
    \/ ApplyIdentifierAssignedByAWS
    \/ ApplyNamePrefixRemoval
    \/ ApplyKnownReferencers

Spec == Init /\ [][Next]_vars

(***************************************************************************)
(* ReplaceGroupWords and the two table lookups as functions of their       *)
(* arguments: any group, any word count, any resource name.                *)
(***************************************************************************)
IdleDescriptor ==
    [Name         |-> str_aws_vpc,
     ShortGroup   |-> "ec2",
     Kind         |-> str_SampleKind,
     ExternalName |-> NameAsIdentifier,
     Schema       |-> EmptyMap,
     References   |-> EmptyMap]

InitFn ==
    /\ call \in [group : Groups, count : 0..MaxCount, resource : ResourceNames]
    /\ ret = NoRet
    /\ panicked = FALSE
    /\ r = IdleDescriptor
    /\ r0 = IdleDescriptor
    /\ orig = IdleDescriptor
    /\ last = "DefaultResource"
    /\ again = FALSE

\* ReplaceGroupWords(call.group, call.count)(call.resource)
CallReplaceGroupWords ==
    /\ ret.op = "none"
    /\ LET f == ReplaceGroupWords(call.group, call.count, call.resource)
       IN  /\ ret' = [op |-> "ReplaceGroupWords", found |-> TRUE,
                      group |-> f.group, kind |-> f.kind]
           /\ panicked' = f.panicked
    /\ UNCHANGED <<r, r0, orig, last, again, call>>

\* f, ok := GroupMap[call.resource]
LookupGroupMap ==
    /\ ret.op = "none"
    /\ ret' = [op    |-> "GroupMap",
               found |-> call.resource \in DOMAIN GroupMap,
               group |-> IF call.resource \in DOMAIN GroupMap
                         THEN GroupMap[call.resource].group ELSE "",
               kind  |-> <<>>]
    /\ UNCHANGED <<r, r0, orig, last, again, call, panicked>>

\* k, ok := KindMap[call.resource]
LookupKindMap ==
    /\ ret.op = "none"
    /\ ret' = [op    |-> "KindMap",
               found |-> call.resource \in DOMAIN KindMap,
               group |-> "",
               kind  |-> IF call.resource \in DOMAIN KindMap
                         THEN KindMap[call.resource] ELSE <<>>]
    /\ UNCHANGED <<r, r0, orig, last, again, call, panicked>>

NextFn ==
    \/ CallReplaceGroupWords
    \/ LookupGroupMap
    \/ LookupKindMap

SpecFn == InitFn /\ [][NextFn]_vars

(***************************************************************************)
(* Properties.  In every state after the first, last names the option that *)
(* ran last, r0 is the descriptor it was given and r the descriptor it     *)
(* left; orig is the descriptor DefaultResource handed to the chain.       *)
(***************************************************************************)
UpperCaseLetter(c) == \E i \in 1..Len(Upper) : Upper[i] = c

WellFormedKind(kind) ==
    /\ Len(kind) > 0
    /\ UpperCaseLetter(kind[1])
    /\ \A i \in 1..Len(kind) : kind[i] # "_"

\* C1: for every resource name that is a key of GroupMap, GroupKindOverrides
\* sets the group to the group configured for the entry and the kind to the
\* PascalCase form of the name without the vendor prefix and without the
\* configured number of leading words: (route53resolver, Rule),
\* (route53resolver, RuleAssociation), (ec2, RouteTable); the kind has no
\* underscore and starts with an upper-case letter.
C1_GroupKindOfGroupMapEntries ==
    (last = "GroupKindOverrides" /\ r0.Name \in DOMAIN GroupMap) =>
        /\ WellFormedKind(r.Kind)
        /\ r0.Name = str_aws_route53_resolver_rule =>
               r.ShortGroup = "route53resolver" /\ r.Kind = str_Rule
        /\ r0.Name = str_aws_route53_resolver_rule_association =>
               r.ShortGroup = "route53resolver" /\ r.Kind = str_RuleAssociation
        /\ r0.Name = str_aws_route_table =>
               r.ShortGroup = "ec2" /\ r.Kind = str_RouteTable

C1_Witness ==
    /\ last = "GroupKindOverrides"
    /\ r0.Name = str_aws_route53_resolver_rule
    /\ r0.Kind = str_SampleKind
    /\ r.Kind = str_Rule

\* C2: after GroupKindOverrides followed by KindOverrides, a descriptor whose
\* name is a key of neither table has the group and the kind it started
\* with; one whose name is a key of KindMap only has the kind stored in
\* KindMap and the group it started with.
C2_KindOverrideFrame ==
    (last = "KindOverrides" /\ orig.Name \notin DOMAIN GroupMap) =>
        /\ r.ShortGroup = orig.ShortGroup
        /\ orig.Name \notin DOMAIN KindMap => r.Kind = orig.Kind
        /\ orig.Name = str_aws_autoscaling_group => r.Kind = str_AutoscalingGroup
        /\ orig.Name = str_aws_cloudformation_type => r.Kind = str_CloudFormationType
        /\ orig.Name = str_aws_config_configuration_recorder_status =>
               r.Kind = str_AWSConfigurationRecorderStatus
        /\ orig.Name = str_aws_cloudtrail => r.Kind = str_Trail

C2_Witness ==
    /\ last = "KindOverrides"
    /\ orig.Name = str_aws_cloudtrail
    /\ r.Kind = str_Trail
    /\ r.ShortGroup = orig.ShortGroup

\* C3: RegionAddition leaves a descriptor of group iam as it is (no region
\* field appears in a schema that had none); for a descriptor of any other
\* group the schema afterwards has a field region that is a required string
\* with the fixed region description.
C3_RegionSkippedExactlyForIam ==
    last = "RegionAddition" =>
        IF r0.ShortGroup = "iam"
        THEN /\ r = r0
             /\ str_region \notin DOMAIN r0.Schema => str_region \notin DOMAIN r.Schema
        ELSE /\ str_region \in DOMAIN r.Schema
             /\ r.Schema[str_region].Type = "TypeString"
             /\ r.Schema[str_region].Required
             /\ r.Schema[str_region].Description = RegionDescription

C3_Witness ==
    /\ last = "RegionAddition"
    /\ r0.ShortGroup = "iam"
    /\ DOMAIN r0.Schema # {}
    /\ str_region \notin DOMAIN r.Schema

Count(seq, x) == Cardinality({i \in 1..Len(seq) : seq[i] = x})

\* C4: every option of the chain is idempotent: a second application right
\* after the first leaves the descriptor as the first left it.  After two
\* applications of RegionAddition the region field is still required with
\* the same description, and after two applications of NamePrefixRemoval
\* name_prefix occurs exactly once in the omitted fields.
C4_Idempotent ==
    again =>
        /\ r = r0
        /\ (last = "RegionAddition" /\ r.ShortGroup # "iam") =>
               /\ str_region \in DOMAIN r.Schema
               /\ r.Schema[str_region].Required
               /\ r.Schema[str_region].Description = RegionDescription
        /\ last = "NamePrefixRemoval" =>
               Count(r.ExternalName.OmittedFields, str_name_prefix) = 1

C4_Witness ==
    /\ again
    /\ last = "NamePrefixRemoval"
    /\ Count(r.ExternalName.OmittedFields, str_name_prefix) = 1

\* C5: TagsAllRemoval makes an existing tags_all field computed and not
\* optional and changes nothing else; a descriptor without tags_all is left
\* as it is.
C5_TagsAllComputedOnly ==
    last = "TagsAllRemoval" =>
        IF str_tags_all \in DOMAIN r0.Schema
        THEN /\ DOMAIN r.Schema = DOMAIN r0.Schema
             /\ r.Schema[str_tags_all].Computed
             /\ ~r.Schema[str_tags_all].Optional
             /\ r.Schema[str_tags_all].Type = r0.Schema[str_tags_all].Type
             /\ r.Schema[str_tags_all].Sensitive = r0.Schema[str_tags_all].Sensitive
             /\ r.Schema[str_tags_all].Description = r0.Schema[str_tags_all].Description
             /\ \A k \in DOMAIN r0.Schema : k # str_tags_all => r.Schema[k] = r0.Schema[k]
             /\ [r EXCEPT !.Schema = r0.Schema] = r0
        ELSE r = r0

C5_Witness ==
    /\ last = "TagsAllRemoval"
    /\ ~again
    /\ str_tags_all \in DOMAIN r0.Schema
    /\ r0.Schema[str_tags_all].Optional
    /\ ~r.Schema[str_tags_all].Optional
    /\ str_region \in DOMAIN r.Schema

\* a field of the schema the loop of KnownReferencers does not pass over:
\* not sensitive, and optional or not computed
Eligible(d, k) ==
    /\ k \in DOMAIN d.Schema
    /\ ~d.Schema[k].Sensitive
    /\ ~(d.Schema[k].Computed /\ ~d.Schema[k].Optional)

\* C6 as stated: an eligible field db_security_group_ids receives the
\* reference field name DbSecurityGroupRefs and the selector field name
\* DbSecurityGroupSelector.
C6_Original ==
    (last = "KnownReferencers" /\ Eligible(r0, str_db_security_group_ids)) =>
        /\ str_db_security_group_ids \in DOMAIN r.References
        /\ r.References[str_db_security_group_ids].RefFieldName = str_DbSecurityGroupRefs
        /\ r.References[str_db_security_group_ids].SelectorFieldName = str_DbSecurityGroupSelector

\* C6 amended: an eligible field whose name ends in security_group_ids
\* receives a reference to the security-group type whose reference and
\* selector field names are the PascalCase form of the field name without
\* its last letter s, the Id word kept, followed by Refs / Selector:
\* db_security_group_ids receives DbSecurityGroupIdRefs and
\* DbSecurityGroupIdSelector, security_group_ids receives
\* SecurityGroupIdRefs and SecurityGroupIdSelector.
C6_RefNamesKeepId ==
    last = "KnownReferencers" =>
        /\ Eligible(r0, str_db_security_group_ids) =>
              /\ str_db_security_group_ids \in DOMAIN r.References
              /\ r.References[str_db_security_group_ids] =
                    [Type              |-> "github.com/crossplane-contrib/provider-jet-aws/apis/ec2/v1alpha2.SecurityGroup",
                     RefFieldName      |-> str_DbSecurityGroupIdRefs,
                     SelectorFieldName |-> str_DbSecurityGroupIdSelector,
                     Extractor         |-> ""]
        /\ Eligible(r0, str_security_group_ids) =>
              /\ str_security_group_ids \in DOMAIN r.References
              /\ r.References[str_security_group_ids] =
                    [Type              |-> "github.com/crossplane-contrib/provider-jet-aws/apis/ec2/v1alpha2.SecurityGroup",
                     RefFieldName      |-> str_SecurityGroupIdRefs,
                     SelectorFieldName |-> str_SecurityGroupIdSelector,
                     Extractor         |-> ""]

C6_Witness ==
    /\ last = "KnownReferencers"
    /\ Eligible(r0, str_db_security_group_ids)
    /\ str_db_security_group_ids \in DOMAIN r.References
    /\ r.References[str_db_security_group_ids].RefFieldName = str_DbSecurityGroupIdRefs

\* the short and the fully qualified name of the type each networking
\* field refers to
ShortType(k) ==
    IF k = str_vpc_id THEN "VPC"
    ELSE IF k \in {str_subnet_ids, str_subnet_id} THEN "Subnet"
    ELSE "SecurityGroup"

QualifiedType(k) ==
    IF k = str_vpc_id
    THEN "github.com/crossplane-contrib/provider-jet-aws/apis/ec2/v1alpha2.VPC"
    ELSE IF k \in {str_subnet_ids, str_subnet_id}
    THEN "github.com/crossplane-contrib/provider-jet-aws/apis/ec2/v1alpha2.Subnet"
    ELSE "github.com/crossplane-contrib/provider-jet-aws/apis/ec2/v1alpha2.SecurityGroup"

\* C7: for each eligible field vpc_id, subnet_ids, subnet_id,
\* security_group_id the recorded reference has the short type name (VPC,
\* Subnet, SecurityGroup) when the descriptor's group is ec2 and the fully
\* qualified type path when it is any other group.
C7_SameGroupShortType ==
    last = "KnownReferencers" =>
        \A k \in {str_vpc_id, str_subnet_ids, str_subnet_id, str_security_group_id} :
            Eligible(r0, k) =>
                /\ k \in DOMAIN r.References
                /\ r.References[k].Type =
                       IF r0.ShortGroup = "ec2" THEN ShortType(k) ELSE QualifiedType(k)

ReferenceRuleNames ==
    {str_role_arn, str_security_group_ids, str_db_security_group_ids, str_vpc_id,
     str_subnet_ids, str_subnet_id, str_security_group_id, str_kms_key_id,
     str_kms_key_arn, str_kms_key}

\* C8: KnownReferencers adds or changes no reference of a field that is
\* sensitive or that is computed and not optional: for such a field the
\* references are afterwards what they were before.
C8_NoReferenceForSkippedFields ==
    last = "KnownReferencers" =>
        \A k \in DOMAIN r0.Schema :
            (r0.Schema[k].Sensitive \/ (r0.Schema[k].Computed /\ ~r0.Schema[k].Optional)) =>
                /\ k \in DOMAIN r.References <=> k \in DOMAIN r0.References
                /\ k \in DOMAIN r0.References => r.References[k] = r0.References[k]

C8_Witness ==
    /\ last = "KnownReferencers"
    /\ \E k \in ReferenceRuleNames :
           /\ k \in DOMAIN r0.Schema
           /\ r0.Schema[k].Sensitive
           /\ r0.Schema[k].Optional
           /\ k \notin DOMAIN r.References

\* C9 as stated: RegionAddition on a descriptor of a group other than iam
\* whose schema already has a field region keeps the type, the sensitive
\* flag and the optional and computed flags of that field.
C9_Original ==
    (last = "RegionAddition" /\ r0.ShortGroup # "iam" /\ str_region \in DOMAIN r0.Schema) =>
        /\ r.Schema[str_region].Type = r0.Schema[str_region].Type
        /\ r.Schema[str_region].Sensitive = r0.Schema[str_region].Sensitive
        /\ r.Schema[str_region].Optional = r0.Schema[str_region].Optional
        /\ r.Schema[str_region].Computed = r0.Schema[str_region].Computed

\* C9 amended: RegionAddition on a descriptor of a group other than iam
\* whose schema already has a field region replaces that definition as a
\* whole: afterwards the field is a required string with the region
\* description, neither optional nor computed nor sensitive, whatever it
\* was before; every other field of the schema is as it was.
C9_RegionReplaced ==
    (last = "RegionAddition" /\ r0.ShortGroup # "iam" /\ str_region \in DOMAIN r0.Schema) =>
        /\ r.Schema[str_region] =
               [Type        |-> "TypeString",
                Required    |-> TRUE,
                Optional    |-> FALSE,
                Computed    |-> FALSE,
                Sensitive   |-> FALSE,
                Description |-> RegionDescription]
        /\ DOMAIN r.Schema = DOMAIN r0.Schema
        /\ \A k \in DOMAIN r0.Schema : k # str_region => r.Schema[k] = r0.Schema[k]

C9_Witness ==
    /\ last = "RegionAddition"
    /\ ~again
    /\ r0.ShortGroup # "iam"
    /\ str_region \in DOMAIN r0.Schema
    /\ r0.Schema[str_region].Sensitive
    /\ r0.Schema[str_region].Computed
    /\ ~r.Schema[str_region].Sensitive

\* C10: the function returned by ReplaceGroupWords never fails, whatever
\* the resource name and the word count, and a lookup of a name missing
\* from GroupMap or KindMap reports not-found.
C10_Total ==
    /\ ret.op = "ReplaceGroupWords" => ~panicked
    /\ (ret.op = "GroupMap" /\ call.resource \notin DOMAIN GroupMap) => ~ret.found /\ ~panicked
    /\ (ret.op = "KindMap" /\ call.resource \notin DOMAIN KindMap) => ~ret.found /\ ~panicked

====
